---- MODULE Spec2Model ----
(***************************************************************************)
(* Portfolio Manager evaluation harness: the dataset builder               *)
(* (create_test_dataset), the API client (PortfolioManagerApiClient) and   *)
(* the response collector (collect_ai_responses) of                        *)
(* src/evaluation/portfolio_evaluator.py, and the PerformanceAnalyzer of   *)
(* src/evaluation/performance_analyzer.py (specification AnalyzerSpec).    *)
(*                                                                         *)
(* Python values are modelled as follows.  A dict is a TLA+ record, a list *)
(* a sequence.  A str that takes part in string formatting (an error       *)
(* description, a response text, a path) is a sequence of tokens, so that  *)
(* an f-string is a concatenation; every other str is a TLA+ string.  A    *)
(* JSON line of a .jsonl file is the set of the key/value members of the   *)
(* object written on it.                                                   *)
(***************************************************************************)
EXTENDS Integers, Sequences, FiniteSets, TLC

VARIABLES
    files,              \* file system: existing path -> the sequence of its JSON lines
    pc,                 \* position of the program
    output_file,        \* create_test_dataset: the path being written
    writer_i,           \* create_test_dataset: enumerate index i of the next scenario
    builds,             \* history: the file content each completed create_test_dataset left
    test_dataset_file,  \* collect_ai_responses: the input path
    test_data,          \* collect_ai_responses: the loaded rows
    enriched_data,      \* collect_ai_responses: the accumulated enriched rows
    i,                  \* collect_ai_responses: enumerate index (from 1) of the current scenario
    session,            \* PortfolioManagerApiClient.session: "none", "open" or "closed"
    acquired,           \* number of aiohttp.ClientSession() constructions
    inflight,           \* requests sent and not yet completed
    requests,           \* every request sent so far, in order
    clock,              \* logical time read by datetime.utcnow()
    pauses,             \* the scenario indices after which asyncio.sleep(0.5) ran
    health_calls,       \* history: what each health_check call met and gave back
    calls,              \* history: what each send_chat_query call met and gave back
    printed,            \* the messages printed by the current operation, in order
    raised,             \* the exception that left the operation, or NoException
    returned,           \* the value the operation returned, or NoValue
    results,            \* compare_query_types: query type -> result of its analysis
    analyses            \* history: what each analyze_request_phases call met and gave back

vars == <<files, pc, output_file, writer_i, builds, test_dataset_file, test_data,
          enriched_data, i, session, acquired, inflight, requests, clock,
          pauses, health_calls, calls, printed, raised, returned,
          results, analyses>>

(***************************************************************************)
(* Bounds.                                                                 *)
(***************************************************************************)
\* longest dataset the collector is run on
MaxScenarios == 3

\* number of times create_test_dataset runs to its end
MaxBuilds == 2

(***************************************************************************)
(* Sentinels.                                                              *)
(***************************************************************************)
NoException == [type |-> "NoException", args |-> <<>>]
NoValue == <<"NoValue">>

(***************************************************************************)
(* Strings.                                                                *)
(***************************************************************************)
DigitChars == <<"0", "1", "2", "3", "4", "5", "6", "7", "8", "9">>

RECURSIVE IntStr(_)
\* str(n) / f"{n}" of a natural number: its decimal digits
IntStr(n) ==
    IF n < 10 THEN <<DigitChars[n + 1]>>
    ELSE IntStr(n \div 10) \o <<DigitChars[(n % 10) + 1]>>

\* f"{n:02d}": decimal digits, zero-padded on the left to width 2
Format02d(n) ==
    IF Len(IntStr(n)) < 2 THEN <<"0">> \o IntStr(n) ELSE IntStr(n)

RECURSIVE Replace(_, _, _)
\* str.replace(old, new) on a tokenised string: every occurrence of the
\* token old becomes the tokens new
Replace(s, old, new) ==
    IF s = <<>> THEN <<>>
    ELSE (IF Head(s) = old THEN new ELSE <<Head(s)>>) \o Replace(Tail(s), old, new)

RECURSIVE RStrip(_, _)
\* str.rstrip(ch) on a tokenised string
RStrip(s, ch) ==
    IF s # <<>> /\ s[Len(s)] = ch THEN RStrip(SubSeq(s, 1, Len(s) - 1), ch) ELSE s

\* dict.get(key, default)
Get(d, key, default) == IF key \in DOMAIN d THEN d[key] ELSE default

(***************************************************************************)
(* JSON lines: jsonlines Writer.write / Reader iteration.                  *)
(***************************************************************************)
\* Writer.write(row): the JSON object of a dict, as the set of its members
Dumps(row) == {<<k, row[k]>> : k \in DOMAIN row}

\* Reader: the dict of a JSON object
Loads(line) ==
    [k \in {m[1] : m \in line} |-> (CHOOSE m \in line : m[1] = k)[2]]

(***************************************************************************)
(* create_test_dataset: the fixed catalog.                                 *)
(***************************************************************************)
tool_definitions == <<
    [name |-> "PortfolioAnalysisTool",
     description |-> "Analyzes portfolio holdings for a specific date, calculating total value, asset allocation, and performance metrics",
     parameters |-> [type |-> "object",
                     properties |-> [valuationDate |-> [type |-> "string",
                         description |-> "Date for analysis (YYYY-MM-DD format or relative terms like 'today', 'yesterday')"]],
                     required |-> <<"valuationDate">>]],
    [name |-> "PortfolioComparisonTool",
     description |-> "Compares portfolio performance between two different dates",
     parameters |-> [type |-> "object",
                     properties |-> [currentDate |-> [type |-> "string",
                         description |-> "Current date for comparison (YYYY-MM-DD or relative terms)"],
                                     comparisonDate |-> [type |-> "string",
                         description |-> "Historical date to compare against (YYYY-MM-DD or relative terms)"]],
                     required |-> <<"currentDate", "comparisonDate">>]],
    [name |-> "MarketIntelligenceTool",
     description |-> "Provides market sentiment analysis and intelligence for specific securities",
     parameters |-> [type |-> "object",
                     properties |-> [symbol |-> [type |-> "string",
                         description |-> "Stock symbol to analyze (e.g., 'AAPL', 'MSFT', 'TSLA.L')"]],
                     required |-> <<"symbol">>]]
>>

test_scenarios == <<
    [query |-> "How is my portfolio performing today?",
     expected_tool |-> "PortfolioAnalysisTool",
     expected_params |-> [valuationDate |-> "today"],
     scenario_type |-> "portfolio_analysis"],
    [query |-> "What was my portfolio value yesterday?",
     expected_tool |-> "PortfolioAnalysisTool",
     expected_params |-> [valuationDate |-> "yesterday"],
     scenario_type |-> "portfolio_analysis"],
    [query |-> "Can you analyze my portfolio for November 15, 2025?",
     expected_tool |-> "PortfolioAnalysisTool",
     expected_params |-> [valuationDate |-> "2025-11-15"],
     scenario_type |-> "portfolio_analysis"],
    [query |-> "How does my portfolio today compare to last week?",
     expected_tool |-> "PortfolioComparisonTool",
     expected_params |-> [currentDate |-> "today", comparisonDate |-> "2025-11-11"],
     scenario_type |-> "portfolio_comparison"],
    [query |-> "Compare my current portfolio performance to last month",
     expected_tool |-> "PortfolioComparisonTool",
     expected_params |-> [currentDate |-> "today", comparisonDate |-> "2025-10-18"],
     scenario_type |-> "portfolio_comparison"],
    [query |-> "Show me the difference between my portfolio on Nov 10 vs Nov 17, 2025",
     expected_tool |-> "PortfolioComparisonTool",
     expected_params |-> [currentDate |-> "2025-11-17", comparisonDate |-> "2025-11-10"],
     scenario_type |-> "portfolio_comparison"],
    [query |-> "What's the market sentiment for Apple stock?",
     expected_tool |-> "MarketIntelligenceTool",
     expected_params |-> [symbol |-> "AAPL"],
     scenario_type |-> "market_intelligence"],
    [query |-> "Can you give me intel on Tesla's market situation?",
     expected_tool |-> "MarketIntelligenceTool",
     expected_params |-> [symbol |-> "TSLA"],
     scenario_type |-> "market_intelligence"],
    [query |-> "How does the market feel about GEN.L right now?",
     expected_tool |-> "MarketIntelligenceTool",
     expected_params |-> [symbol |-> "GEN.L"],
     scenario_type |-> "market_intelligence"],
    [query |-> "What's my total portfolio value and how is MSFT doing in the market?",
     expected_tool |-> "PortfolioAnalysisTool",
     expected_params |-> [valuationDate |-> "today"],
     scenario_type |-> "multi_intent",
     note |-> "Should trigger both PortfolioAnalysisTool and MarketIntelligenceTool"],
    [query |-> "I want to see how my investments have changed and also check sentiment for Amazon",
     expected_tool |-> "PortfolioComparisonTool",
     expected_params |-> [currentDate |-> "today", comparisonDate |-> "yesterday"],
     scenario_type |-> "multi_intent",
     note |-> "Should trigger PortfolioComparisonTool and MarketIntelligenceTool"]
>>

\* the id numbered from the enumerate index itself
ScenarioId_ZeroBased(idx) == <<"test_">> \o Format02d(idx)

\* f"test_{i+1:02d}" for the enumerate index idx (from 0)
ScenarioId(idx) == <<"test_">> \o Format02d(idx + 1)

\* Row with a tool-definition list that lost its first entry
Row_WrongTools(idx) ==
    LET scenario == test_scenarios[idx + 1]
        row == [query |-> scenario["query"],
                tool_definitions |-> Tail(tool_definitions),
                scenario_id |-> ScenarioId(idx),
                scenario_type |-> scenario["scenario_type"],
                expected_tool |-> scenario["expected_tool"],
                expected_params |-> scenario["expected_params"]]
    IN  IF "note" \in DOMAIN scenario
        THEN row @@ ("notes" :> scenario["note"])
        ELSE row

\* Row with the expected parameters of the first scenario on every row
Row_FirstParams(idx) ==
    LET scenario == test_scenarios[idx + 1]
        row == [query |-> scenario["query"],
                tool_definitions |-> tool_definitions,
                scenario_id |-> ScenarioId(idx),
                scenario_type |-> scenario["scenario_type"],
                expected_tool |-> scenario["expected_tool"],
                expected_params |-> test_scenarios[1]["expected_params"]]
    IN  IF "note" \in DOMAIN scenario
        THEN row @@ ("notes" :> scenario["note"])
        ELSE row

\* the data row built for test_scenarios[idx + 1] (enumerate index idx from 0)
Row(idx) ==
    LET scenario == test_scenarios[idx + 1]
        row == [query |-> scenario["query"],
                tool_definitions |-> tool_definitions,
                scenario_id |-> ScenarioId(idx),
                scenario_type |-> scenario["scenario_type"],
                expected_tool |-> scenario["expected_tool"],
                expected_params |-> scenario["expected_params"]]
    IN  IF "note" \in DOMAIN scenario
        THEN row @@ ("notes" :> scenario["note"])
        ELSE row

(***************************************************************************)
(* Paths.                                                                  *)
(***************************************************************************)
\* the default of create_test_dataset's output_file, which main() collects
DefaultPath == <<"portfolio_test_dataset", ".jsonl">>

\* test_dataset_file.replace(".jsonl", "_with_responses.jsonl")
EnrichedFile(path) == Replace(path, ".jsonl", <<"_with_responses", ".jsonl">>)

InputPaths == {DefaultPath}

\* a dataset file named without the .jsonl suffix
PlainPath == <<"scenarios", ".json">>

\* the values of collect_ai_responses' test_dataset_file
DatasetPaths == InputPaths \cup {PlainPath}

Paths == DatasetPaths \cup {EnrichedFile(p) : p \in DatasetPaths}

(***************************************************************************)
(* Exceptions.  args is the tokenised str(ex).                             *)
(***************************************************************************)
Exc(type, args) == [type |-> type, args |-> args]

\* str(ex)
Str(ex) == ex.args

\* the exception classes an `except Exception` clause catches: every class
\* raised in this program derives from Exception
ExceptionClasses ==
    {"Exception", "AttributeError", "RuntimeError", "ClientConnectorError",
     "TimeoutError", "ClientPayloadError", "ContentTypeError",
     "JSONDecodeError", "OSError", "FileNotFoundError"}

\* what aiohttp raises for each transport-level failure of a request
TransportError(transport) ==
    CASE transport = "ClientConnectorError" ->
            Exc("ClientConnectorError", <<"Cannot connect to host ", "localhost:5000">>)
      [] transport = "TimeoutError" ->
            Exc("TimeoutError", <<>>)

\* what using self.session raises when no open session is held
SessionError(sess) ==
    IF sess = "none"
    THEN Exc("AttributeError", <<"'NoneType' object has no attribute">>)
    ELSE Exc("RuntimeError", <<"Session is closed">>)

(***************************************************************************)
(* Results of an operation: a returned value or a raised exception, with   *)
(* the messages it printed.                                                *)
(***************************************************************************)
Return(v) == [kind |-> "return", value |-> v, ex |-> NoException, printed |-> <<>>]

Raise(ex) == [kind |-> "raise", value |-> NoValue, ex |-> ex, printed |-> <<>>]

(***************************************************************************)
(* The remote service, as seen through aiohttp: what one request can meet. *)
(***************************************************************************)
NoBody == [nothing |-> TRUE]

\* outcomes of GET /api/ai/chat/health
HealthOutcomes ==
    {[transport |-> "ok", status |-> 200],
     [transport |-> "ok", status |-> 204],
     [transport |-> "ok", status |-> 503],
     [transport |-> "ClientConnectorError", status |-> 0],
     [transport |-> "TimeoutError", status |-> 0]}

\* the JSON objects the service answers a query with
Payloads ==
    {[response |-> <<"All good">>],
     [queryType |-> "general"]}

\* a completed POST: status, response.text(), the Content-Type header being a
\* JSON one, and response.json()
Answer(status, text_ok, text, json_ctype, json_ok, json) ==
    [transport |-> "ok", status |-> status, text_ok |-> text_ok, text |-> text,
     json_ctype |-> json_ctype, json_ok |-> json_ok, json |-> json]

\* outcomes of POST /api/ai/chat/query
PostOutcomes ==
    {Answer(200, TRUE, <<"{...}">>, TRUE, TRUE, p) : p \in Payloads}
    \cup
    {Answer(200, TRUE, <<"{\"response\": ">>, TRUE, FALSE, NoBody),
     Answer(200, TRUE, <<"<html>">>, FALSE, FALSE, NoBody),
     Answer(500, TRUE, <<"Internal Server Error">>, FALSE, FALSE, NoBody),
     Answer(500, FALSE, <<>>, FALSE, FALSE, NoBody),
     [transport |-> "ClientConnectorError", status |-> 0, text_ok |-> FALSE,
      text |-> <<>>, json_ctype |-> FALSE, json_ok |-> FALSE, json |-> NoBody],
     [transport |-> "TimeoutError", status |-> 0, text_ok |-> FALSE,
      text |-> <<>>, json_ctype |-> FALSE, json_ok |-> FALSE, json |-> NoBody]}

(***************************************************************************)
(* PortfolioManagerApiClient.                                              *)
(***************************************************************************)
\* __init__: base_url.rstrip('/')
base_url == RStrip(<<"http://localhost:5000">>, "/")

\* __aenter__: self.session = aiohttp.ClientSession()
aenter(sess) == "open"

\* __aexit__ that leaves the session as it is
aexit_NoClose(sess) == sess

\* __aexit__: if self.session: await self.session.close()
aexit(sess) == IF sess # "none" THEN "closed" ELSE sess

\* the request health_check sends
HealthRequest(sess) ==
    [method |-> "GET", url |-> base_url \o <<"/api/ai/chat/health">>,
     json |-> NoBody, session |-> sess]

\* the body of health_check's try block
HealthCheckTry(sess, outcome) ==
    IF sess # "open" THEN Raise(SessionError(sess))
    ELSE IF outcome.transport # "ok" THEN Raise(TransportError(outcome.transport))
    ELSE Return(outcome.status = 200)

\* health_check whose except clause names aiohttp.ClientError only
health_check_NarrowExcept(sess, outcome) ==
    LET r == HealthCheckTry(sess, outcome)
    IN  IF r.kind = "raise" /\ r.ex.type \in {"ClientConnectorError", "ClientPayloadError"}
        THEN Return(FALSE)
        ELSE r

\* health_check: the bare except turns every exception into False
health_check(sess, outcome) ==
    LET r == HealthCheckTry(sess, outcome)
    IN  IF r.kind = "raise" THEN Return(FALSE) ELSE r

\* the request send_chat_query sends
ChatRequest(sess, query, account_id, thread_id) ==
    [method |-> "POST", url |-> base_url \o <<"/api/ai/chat/query">>,
     json |-> [query |-> query, accountId |-> account_id, threadId |-> thread_id],
     session |-> sess]

\* the try block without the status test: any answer that parses is returned
SendChatQueryTry_NoStatusCheck(sess, outcome) ==
    IF sess # "open" THEN Raise(SessionError(sess))
    ELSE IF outcome.transport # "ok" THEN Raise(TransportError(outcome.transport))
    ELSE IF ~outcome.json_ctype
         THEN Raise(Exc("ContentTypeError",
                        IntStr(outcome.status)
                            \o <<", message='Attempt to decode JSON with unexpected mimetype'">>))
    ELSE IF ~outcome.json_ok
         THEN Raise(Exc("JSONDecodeError", <<"Expecting value: line 1 column 16 (char 15)">>))
    ELSE Return(outcome.json)

\* the body of send_chat_query's try block
SendChatQueryTry(sess, outcome) ==
    IF sess # "open" THEN Raise(SessionError(sess))
    ELSE IF outcome.transport # "ok" THEN Raise(TransportError(outcome.transport))
    ELSE IF outcome.status # 200
         THEN IF ~outcome.text_ok
              THEN Raise(Exc("ClientPayloadError", <<"Response payload is not completed">>))
              ELSE Raise(Exc("Exception",
                             <<"API Error ">> \o IntStr(outcome.status)
                                 \o <<": ">> \o outcome.text))
    ELSE IF ~outcome.json_ctype
         THEN Raise(Exc("ContentTypeError",
                        IntStr(outcome.status)
                            \o <<", message='Attempt to decode JSON with unexpected mimetype'">>))
    ELSE IF ~outcome.json_ok
         THEN Raise(Exc("JSONDecodeError", <<"Expecting value: line 1 column 16 (char 15)">>))
    ELSE Return(outcome.json)

\* send_chat_query: except Exception prints the exception and re-raises it
send_chat_query(sess, outcome) ==
    LET r == SendChatQueryTry(sess, outcome)
    IN  IF r.kind = "raise" /\ r.ex.type \in ExceptionClasses
        THEN [r EXCEPT !.printed =
                  <<<<"Error calling Portfolio Manager API: ">> \o Str(r.ex)>>]
        ELSE r

(***************************************************************************)
(* collect_ai_responses: the per-scenario records.                         *)
(***************************************************************************)
\* d[key] = value on a dict
SetKey(d, key, value) == (key :> value) @@ d

\* the try branch with an error key set on every record
EnrichedScenario_ErrorKey(scenario, api_response, now) ==
    LET e1 == SetKey(scenario, "response",
                     Get(api_response, "response", <<"No response">>))
        e2 == SetKey(e1, "tool_calls", <<>>)
        e3 == SetKey(e2, "api_response_full", api_response)
        e4 == SetKey(e3, "error", <<>>)
    IN  SetKey(e4, "timestamp", now)

\* the try branch with an empty text in place of the "No response" default
EnrichedScenario_NoDefault(scenario, api_response, now) ==
    LET e1 == SetKey(scenario, "response", Get(api_response, "response", <<>>))
        e2 == SetKey(e1, "tool_calls", <<>>)
        e3 == SetKey(e2, "api_response_full", api_response)
    IN  SetKey(e3, "timestamp", now)

\* the try branch: the scenario enriched with the API response
EnrichedScenario(scenario, api_response, now) ==
    LET tool_calls == <<>>
        e1 == SetKey(scenario, "response",
                     Get(api_response, "response", <<"No response">>))
        e2 == SetKey(e1, "tool_calls", tool_calls)
        e3 == SetKey(e2, "api_response_full", api_response)
    IN  SetKey(e3, "timestamp", now)

\* the except branch without the synthetic response
ErrorScenario_NoResponse(scenario, ex, now) ==
    LET e2 == SetKey(scenario, "tool_calls", <<>>)
        e3 == SetKey(e2, "error", Str(ex))
    IN  SetKey(e3, "timestamp", now)

\* the except branch: the scenario with the error response
ErrorScenario(scenario, ex, now) ==
    LET e1 == SetKey(scenario, "response", <<"Error: ">> \o Str(ex))
        e2 == SetKey(e1, "tool_calls", <<>>)
        e3 == SetKey(e2, "error", Str(ex))
    IN  SetKey(e3, "timestamp", now)

\* one iteration that records nothing for a failed call
ProcessScenario_DropFailed(idx, scenario, r, now) ==
    IF r.kind = "return"
    THEN [rows |-> <<EnrichedScenario(scenario, r.value, now)>>, scenario |-> scenario,
          printed |-> r.printed, sleep |-> TRUE, ex |-> NoException]
    ELSE [rows |-> <<>>, scenario |-> scenario,
          printed |-> r.printed, sleep |-> FALSE, ex |-> NoException]

\* one iteration without scenario.copy(): the keys are set on the loaded
\* scenario itself
ProcessScenario_NoCopy(idx, scenario, r, now) ==
    IF r.kind = "return"
    THEN [rows |-> <<EnrichedScenario(scenario, r.value, now)>>,
          scenario |-> EnrichedScenario(scenario, r.value, now),
          printed |-> r.printed, sleep |-> TRUE, ex |-> NoException]
    ELSE IF r.ex.type \in ExceptionClasses
    THEN [rows |-> <<ErrorScenario(scenario, r.ex, now)>>,
          scenario |-> ErrorScenario(scenario, r.ex, now),
          printed |-> r.printed \o
                      <<<<"Error processing scenario ">> \o IntStr(idx)
                            \o <<": ">> \o Str(r.ex)>>,
          sleep |-> FALSE, ex |-> NoException]
    ELSE [rows |-> <<>>, scenario |-> scenario,
          printed |-> r.printed, sleep |-> FALSE, ex |-> r.ex]

\* one iteration of the for loop, given the result r of send_chat_query:
\* the record appended, the loaded scenario as the iteration leaves it (the
\* keys are set on scenario.copy(), so as it was), the messages printed,
\* whether asyncio.sleep ran, and the exception that leaves the loop (none:
\* except Exception catches every failure of the call)
ProcessScenario(idx, scenario, r, now) ==
    IF r.kind = "return"
    THEN [rows |-> <<EnrichedScenario(scenario, r.value, now)>>, scenario |-> scenario,
          printed |-> r.printed, sleep |-> TRUE, ex |-> NoException]
    ELSE IF r.ex.type \in ExceptionClasses
    THEN [rows |-> <<ErrorScenario(scenario, r.ex, now)>>, scenario |-> scenario,
          printed |-> r.printed \o
                      <<<<"Error processing scenario ">> \o IntStr(idx)
                            \o <<": ">> \o Str(r.ex)>>,
          sleep |-> FALSE, ex |-> NoException]
    ELSE [rows |-> <<>>, scenario |-> scenario,
          printed |-> r.printed, sleep |-> FALSE, ex |-> r.ex]

(***************************************************************************)
(* Initial states: nothing is running; the dataset path is absent or holds *)
(* a dataset written earlier, of at most MaxScenarios scenarios with       *)
(* distinct ids, and an earlier collection run may have left its enriched  *)
(* file.                                                                   *)
(***************************************************************************)
\* the rows earlier datasets are made of
ScenarioPool == {Row(3), Row(6), Row(9)}

BoundedSeq(S, n) == UNION {[1..k -> S] : k \in 0..n}

\* the datasets found at the start: no row occurs twice
Datasets ==
    {d \in BoundedSeq({Dumps(row) : row \in ScenarioPool}, MaxScenarios) :
        \A a, b \in DOMAIN d : a # b => d[a] # d[b]}

\* the dataset an earlier collection run has already enriched, also the
\* dataset found under the name without the .jsonl suffix
EarlierDatasets == {<<Dumps(Row(6))>>}

\* the enriched file an earlier run on dataset d left, every call answered
EarlierArtifact(d) ==
    [k \in DOMAIN d |->
        Dumps(EnrichedScenario(Loads(d[k]), [response |-> <<"All good">>], 0))]

Init ==
    /\ \/ files = << >>
       \/ \E d \in Datasets : files = (DefaultPath :> d)
       \/ \E d \in EarlierDatasets :
              \/ files = (DefaultPath :> d)
                             @@ (EnrichedFile(DefaultPath) :> EarlierArtifact(d))
              \/ files = (PlainPath :> d)
    /\ pc = "idle"
    /\ output_file = <<>>
    /\ writer_i = 0
    /\ builds = <<>>
    /\ test_dataset_file = <<>>
    /\ test_data = <<>>
    /\ enriched_data = <<>>
    /\ i = 0
    /\ session = "none"
    /\ acquired = 0
    /\ inflight = {}
    /\ requests = <<>>
    /\ clock = 0
    /\ pauses = {}
    /\ health_calls = <<>>
    /\ calls = <<>>
    /\ printed = <<>>
    /\ raised = NoException
    /\ returned = NoValue
    /\ results = <<>>
    /\ analyses = <<>>

collectVars == <<test_dataset_file, test_data, enriched_data, i, session,
                 acquired, inflight, requests, clock, pauses, health_calls, calls>>

createVars == <<output_file, writer_i, builds>>

analyzerVars == <<results, analyses>>

(***************************************************************************)
(* create_test_dataset(output_file).                                       *)
(***************************************************************************)
\* jsonlines.open(output_file, mode='w'): the file is created or truncated
CreateOpen(path) ==
    /\ pc = "idle"
    /\ Len(builds) < MaxBuilds
    /\ files' = (path :> <<>>) @@ files
    /\ output_file' = path
    /\ writer_i' = 0
    /\ raised' = NoException
    /\ returned' = NoValue
    /\ pc' = "create_write"
    /\ printed' = <<>>
    /\ UNCHANGED <<builds, collectVars>>
    /\ UNCHANGED analyzerVars

\* writer.write(row) for the next scenario
CreateWrite ==
    /\ pc = "create_write"
    /\ writer_i < Len(test_scenarios)
    /\ files' = [files EXCEPT ![output_file] = Append(@, Dumps(Row(writer_i)))]
    /\ writer_i' = writer_i + 1
    /\ UNCHANGED <<pc, output_file, builds, collectVars, printed, raised, returned>>
    /\ UNCHANGED analyzerVars

\* a write fails (the disk is full): the with block closes the file as it
\* is and the exception leaves create_test_dataset
CreateFault ==
    /\ pc = "create_write"
    /\ writer_i < Len(test_scenarios)
    /\ raised' = Exc("OSError", <<"No space left on device">>)
    /\ pc' = "idle"
    /\ UNCHANGED <<files, createVars, collectVars, printed, returned>>
    /\ UNCHANGED analyzerVars

\* the loop is over: print and return output_file
CreateReturn ==
    /\ pc = "create_write"
    /\ writer_i = Len(test_scenarios)
    /\ printed' = Append(printed,
                         <<"Created test dataset with ">> \o IntStr(Len(test_scenarios))
                             \o <<" scenarios in ">> \o output_file)
    /\ returned' = output_file
    /\ builds' = Append(builds, files[output_file])
    /\ pc' = "idle"
    /\ UNCHANGED <<files, output_file, writer_i, collectVars, raised>>
    /\ UNCHANGED analyzerVars

(***************************************************************************)
(* collect_ai_responses(test_dataset_file, api_base_url, account_id).      *)
(***************************************************************************)
account_id == 1

\* load the test dataset
CollectLoad(path) ==
    /\ pc = "idle"
    /\ path \in DOMAIN files
    /\ Len(files[path]) <= MaxScenarios
    /\ test_dataset_file' = path
    /\ test_data' = [k \in 1..Len(files[path]) |-> Loads(files[path][k])]
    /\ enriched_data' = <<>>
    /\ printed' = <<<<"Collecting AI responses from Portfolio Manager API at ">> \o base_url>>
    /\ raised' = NoException
    /\ returned' = NoValue
    /\ pc' = "enter"
    /\ UNCHANGED <<files, createVars, i, session, acquired, inflight, requests,
                   clock, pauses, health_calls,
                   calls>>
    /\ UNCHANGED analyzerVars

\* the dataset file does not exist: jsonlines.open raises
CollectLoadMissing(path) ==
    /\ pc = "idle"
    /\ path \notin DOMAIN files
    /\ test_dataset_file' = path
    /\ printed' = <<<<"Collecting AI responses from Portfolio Manager API at ">> \o base_url>>
    /\ raised' = Exc("FileNotFoundError", <<"No such file or directory: ">> \o path)
    /\ returned' = NoValue
    /\ pc' = "failed"
    /\ UNCHANGED <<files, createVars, test_data, enriched_data, i, session,
                   acquired, inflight, requests, clock, pauses, health_calls,
                   calls>>
    /\ UNCHANGED analyzerVars

\* async with PortfolioManagerApiClient(api_base_url) as api_client
AEnter ==
    /\ pc = "enter"
    /\ session' = aenter(session)
    /\ acquired' = acquired + 1
    /\ pc' = "health"
    /\ UNCHANGED <<files, createVars, test_dataset_file, test_data, enriched_data,
                   i, inflight, requests, clock, pauses, printed, raised, returned, health_calls,
                   calls>>
    /\ UNCHANGED analyzerVars

\* HealthSend that does not await the health check: the loop starts while the
\* GET is in flight
HealthSend_Background ==
    /\ pc = "health"
    /\ IF session = "open"
       THEN /\ requests' = Append(requests, HealthRequest(session))
            /\ inflight' = inflight \cup {Len(requests) + 1}
       ELSE UNCHANGED <<requests, inflight>>
    /\ i' = 1
    /\ pc' = "loop"
    /\ UNCHANGED <<files, createVars, test_dataset_file, test_data, enriched_data,
                   session, acquired, clock, pauses, printed, raised, returned, health_calls,
                   calls>>
    /\ UNCHANGED analyzerVars

\* await api_client.health_check(): the GET is sent
HealthSend ==
    /\ pc = "health"
    /\ IF session = "open"
       THEN /\ requests' = Append(requests, HealthRequest(session))
            /\ inflight' = inflight \cup {Len(requests) + 1}
       ELSE UNCHANGED <<requests, inflight>>
    /\ pc' = "health_wait"
    /\ UNCHANGED <<files, createVars, test_dataset_file, test_data, enriched_data,
                   i, session, acquired, clock, pauses, printed, raised, returned, health_calls,
                   calls>>
    /\ UNCHANGED analyzerVars

\* the health test left out
HealthGate_Ignore(healthy) == NoException

\* if not await api_client.health_check(): raise Exception(...)
HealthGate(healthy) ==
    IF ~healthy
    THEN Exc("Exception",
             <<"Portfolio Manager API at ">> \o base_url
                 \o <<" is not healthy. Please ensure it's running.">>)
    ELSE NoException

\* health_check completes; an unhealthy service raises out of the with block
HealthReturn(outcome) ==
    /\ pc = "health_wait"
    /\ inflight' = {}
    /\ clock' = clock + 1
    /\ LET r == health_check(session, outcome)
       IN  /\ health_calls' = Append(health_calls, [outcome |-> outcome, result |-> r])
           /\ IF r.kind = "raise"
              THEN /\ raised' = r.ex
                   /\ pc' = "raising"
                   /\ UNCHANGED <<printed, i>>
              ELSE IF HealthGate(r.value) # NoException
              THEN /\ raised' = HealthGate(r.value)
                   /\ pc' = "raising"
                   /\ UNCHANGED <<printed, i>>
              ELSE /\ printed' = printed \o
                         << <<"Portfolio Manager API is healthy">>,
                            <<"Collecting responses for ">> \o IntStr(Len(test_data))
                                \o <<" test scenarios...">> >>
                   /\ i' = 1
                   /\ pc' = "loop"
                   /\ UNCHANGED raised
    /\ UNCHANGED <<files, createVars, test_dataset_file, test_data, enriched_data,
                   session, acquired, requests, pauses, returned, calls>>
    /\ UNCHANGED analyzerVars

\* the next scenario: print its position and send its query
LoopSend ==
    /\ pc = "loop"
    /\ i <= Len(test_data)
    /\ printed' = Append(printed,
                         <<"Processing scenario ">> \o IntStr(i) \o <<"/">>
                             \o IntStr(Len(test_data)) \o <<": ">>
                             \o <<test_data[i]["scenario_type"]>>)
    /\ IF session = "open"
       THEN /\ requests' = Append(requests,
                                  ChatRequest(session, test_data[i]["query"], account_id, "None"))
            /\ inflight' = inflight \cup {Len(requests) + 1}
       ELSE UNCHANGED <<requests, inflight>>
    /\ pc' = "query_wait"
    /\ UNCHANGED <<files, createVars, test_dataset_file, test_data, enriched_data,
                   i, session, acquired, clock, pauses, raised, returned, health_calls,
                   calls>>
    /\ UNCHANGED analyzerVars

\* QueryReturn that sends a failed scenario's query again
QueryReturn_Retry(outcome) ==
    /\ pc = "query_wait"
    /\ inflight' = {}
    /\ clock' = clock + 1
    /\ LET r == send_chat_query(session, outcome)
           p == ProcessScenario(i, test_data[i], r, clock')
       IN  /\ calls' = Append(calls, [outcome |-> outcome, result |-> r])
           /\ test_data' = [test_data EXCEPT ![i] = p.scenario]
           /\ printed' = printed \o p.printed
           /\ IF r.kind = "raise"
              THEN /\ pc' = "loop"
                   /\ UNCHANGED <<raised, i, enriched_data>>
              ELSE /\ enriched_data' = enriched_data \o p.rows
                   /\ pc' = "sleep"
                   /\ UNCHANGED <<raised, i>>
    /\ UNCHANGED <<files, createVars, test_dataset_file, session,
                   acquired, requests, pauses, returned, health_calls>>
    /\ UNCHANGED analyzerVars

\* send_chat_query completes and the scenario's record is appended
QueryReturn(outcome) ==
    /\ pc = "query_wait"
    /\ inflight' = {}
    /\ clock' = clock + 1
    /\ LET r == send_chat_query(session, outcome)
           p == ProcessScenario(i, test_data[i], r, clock')
       IN  /\ calls' = Append(calls, [outcome |-> outcome, result |-> r])
           /\ test_data' = [test_data EXCEPT ![i] = p.scenario]
           /\ enriched_data' = enriched_data \o p.rows
           /\ printed' = printed \o p.printed
           /\ IF p.ex # NoException
              THEN /\ raised' = p.ex
                   /\ pc' = "raising"
                   /\ i' = i
              ELSE IF p.sleep
              THEN /\ pc' = "sleep"
                   /\ UNCHANGED <<raised, i>>
              ELSE /\ pc' = "loop"
                   /\ i' = i + 1
                   /\ UNCHANGED raised
    /\ UNCHANGED <<files, createVars, test_dataset_file, session,
                   acquired, requests, pauses, returned, health_calls>>
    /\ UNCHANGED analyzerVars

\* await asyncio.sleep(0.5), at the end of the try branch
Sleep ==
    /\ pc = "sleep"
    /\ pauses' = pauses \cup {i}
    /\ clock' = clock + 1
    /\ i' = i + 1
    /\ pc' = "loop"
    /\ UNCHANGED <<files, createVars, test_dataset_file, test_data, enriched_data,
                   session, acquired, inflight, requests, printed, raised, returned, health_calls,
                   calls>>
    /\ UNCHANGED analyzerVars

\* the with block is left, normally or by an exception: __aexit__
AExit ==
    /\ \/ pc = "raising"
       \/ pc = "loop" /\ i > Len(test_data)
    /\ session' = aexit(session)
    /\ pc' = IF pc = "raising" THEN "failed" ELSE "save"
    /\ UNCHANGED <<files, createVars, test_dataset_file, test_data, enriched_data,
                   i, acquired, inflight, requests, clock, pauses, printed,
                   raised, returned, health_calls,
                   calls>>
    /\ UNCHANGED analyzerVars

\* jsonlines.open(enriched_file, mode='w'): the file is created or truncated
SaveOpen ==
    /\ pc = "save"
    /\ files' = (EnrichedFile(test_dataset_file) :> <<>>) @@ files
    /\ pc' = "save_write"
    /\ UNCHANGED <<createVars, collectVars, printed, raised, returned>>
    /\ UNCHANGED analyzerVars

\* writer.write(row) for the next enriched row
SaveWrite ==
    /\ pc = "save_write"
    /\ LET enriched_file == EnrichedFile(test_dataset_file)
           n == Len(files[enriched_file])
       IN  /\ n < Len(enriched_data)
           /\ files' = [files EXCEPT ![enriched_file] =
                            Append(@, Dumps(enriched_data[n + 1]))]
    /\ UNCHANGED <<pc, createVars, collectVars, printed, raised, returned>>
    /\ UNCHANGED analyzerVars

\* a write fails: the file is closed as it is and the exception leaves
\* collect_ai_responses
SaveFault ==
    /\ pc = "save_write"
    /\ Len(files[EnrichedFile(test_dataset_file)]) < Len(enriched_data)
    /\ raised' = Exc("OSError", <<"No space left on device">>)
    /\ pc' = "failed"
    /\ UNCHANGED <<files, createVars, collectVars, printed, returned>>
    /\ UNCHANGED analyzerVars

\* every row is written: print and return enriched_file
SaveReturn ==
    /\ pc = "save_write"
    /\ Len(files[EnrichedFile(test_dataset_file)]) = Len(enriched_data)
    /\ printed' = printed \o
           << <<"Collected ">> \o IntStr(Len(enriched_data)) \o <<" responses">>,
              <<"Saved enriched dataset to: ">> \o EnrichedFile(test_dataset_file) >>
    /\ returned' = EnrichedFile(test_dataset_file)
    /\ pc' = "done"
    /\ UNCHANGED <<files, createVars, collectVars, raised>>
    /\ UNCHANGED analyzerVars

Next ==
    \/ \E path \in InputPaths : CreateOpen(path)
    \/ CreateWrite
    \/ CreateFault
    \/ CreateReturn
    \/ \E path \in DatasetPaths : CollectLoad(path)
    \/ \E path \in DatasetPaths : CollectLoadMissing(path)
    \/ AEnter
    \/ HealthSend
    \/ \E outcome \in HealthOutcomes : HealthReturn(outcome)
    \/ LoopSend
    \/ \E outcome \in PostOutcomes : QueryReturn(outcome)
    \/ Sleep
    \/ AExit
    \/ SaveOpen
    \/ SaveWrite
    \/ SaveFault
    \/ SaveReturn

Spec == Init /\ [][Next]_vars

(***************************************************************************)
(* src/evaluation/performance_analyzer.py: PerformanceAnalyzer, run by its *)
(* main().  Durations are whole seconds; the column widths of the summary  *)
(* lines are left out.                                                     *)
(***************************************************************************)
\* PerformanceAnalyzer.__init__: base_url.rstrip('/')
analyzer_base_url == RStrip(<<"http://localhost:8080">>, "/")

\* compare_query_types: the (query_type, query) pairs
queries ==
    << [query_type |-> "Simple Portfolio",
        query |-> <<"What's my portfolio value today?">>],
       [query_type |-> "Market Sentiment",
        query |-> <<"What's the sentiment for Apple?">>],
       [query_type |-> "Complex Analysis",
        query |-> <<"Analyze my portfolio and give me market intel on my top holdings">>] >>

\* f"{x:.2f}" of a whole number of seconds
Fmt2f(n) == IntStr(n) \o <<".", "0", "0">>

\* f"{x:.1f}" of a whole number of seconds
Fmt1f(n) == IntStr(n) \o <<".", "0">>

\* a POST as analyze_request_phases meets it: the seconds to the first byte
\* (or to the failure) and the seconds to read the body
Timed(transport, status, json_ctype, json_ok, json, ttfb, response_read) ==
    [transport |-> transport, status |-> status, json_ctype |-> json_ctype,
     json_ok |-> json_ok, json |-> json, ttfb |-> ttfb,
     response_read |-> response_read]

\* outcomes of the analyzer's POST /api/ai/chat/query
AnalyzerOutcomes ==
    {Timed("ok", 200, TRUE, TRUE, [response |-> <<"O", "K">>], 2, 1),
     Timed("ok", 200, TRUE, TRUE, [response |-> <<"O", "K">>], 61, 1),
     Timed("ok", 200, TRUE, TRUE, [queryType |-> "general"], 2, 11),
     Timed("ok", 500, TRUE, TRUE, [title |-> "Internal Server Error"], 1, 1),
     Timed("ok", 502, FALSE, FALSE, NoBody, 1, 1),
     Timed("ClientConnectorError", 0, FALSE, FALSE, NoBody, 0, 0),
     Timed("TimeoutError", 0, FALSE, FALSE, NoBody, 300, 0)}

\* what aiohttp raises for each transport-level failure of the analyzer's POST
AnalyzerTransportError(transport) ==
    CASE transport = "ClientConnectorError" ->
            Exc("ClientConnectorError", <<"Cannot connect to host ", "localhost:8080">>)
      [] transport = "TimeoutError" ->
            Exc("TimeoutError", <<>>)

\* the request analyze_request_phases sends
AnalyzeRequest(sess, query) ==
    [method |-> "POST", url |-> analyzer_base_url \o <<"/api/ai/chat/query">>,
     json |-> [query |-> query, accountId |-> 1], session |-> sess]

\* the performance assessment printed for a parsed answer
Assessment(ttfb_duration, response_read_time) ==
    IF ttfb_duration > 60
    THEN << <<"BOTTLENECK: Time to first byte is very high">>,
            <<"   This suggests Azure OpenAI processing is slow">>,
            <<"   Possible causes:">>,
            <<"   - Complex portfolio analysis taking time">>,
            <<"   - Azure OpenAI model/region performance">>,
            <<"   - Multiple tool calls being processed">> >>
    ELSE IF response_read_time > 10
    THEN << <<"BOTTLENECK: Response reading is slow">>,
            <<"   This suggests network or streaming issues">> >>
    ELSE << <<"Request phases look normal for AI processing">> >>

\* the body of analyze_request_phases' try block: the dict returned with the
\* lines printed, or the exception raised and the seconds it came after
AnalyzeTry(sess, outcome) ==
    IF sess # "open"
    THEN [kind |-> "raise", ex |-> SessionError(sess), total |-> 0]
    ELSE IF outcome.transport # "ok"
    THEN [kind |-> "raise", ex |-> AnalyzerTransportError(outcome.transport),
          total |-> outcome.ttfb]
    ELSE IF ~outcome.json_ctype
    THEN [kind |-> "raise",
          ex |-> Exc("ContentTypeError",
                     IntStr(outcome.status)
                         \o <<", message='Attempt to decode JSON with unexpected mimetype'">>),
          total |-> outcome.ttfb + outcome.response_read]
    ELSE IF ~outcome.json_ok
    THEN [kind |-> "raise",
          ex |-> Exc("JSONDecodeError", <<"Expecting value: line 1 column 1 (char 0)">>),
          total |-> outcome.ttfb + outcome.response_read]
    ELSE LET ttfb_duration == outcome.ttfb
             response_read_time == outcome.response_read
             total_time == outcome.ttfb + outcome.response_read
             response_text == Get(outcome.json, "response", <<>>)
         IN  [kind |-> "return",
              value |-> [ttfb |-> ttfb_duration,
                         response_read |-> response_read_time,
                         total |-> total_time,
                         response_length |-> Len(response_text),
                         success |-> (outcome.status = 200)],
              printed |->
                  << <<"Timing Breakdown:">>,
                     <<"   Time to First Byte: ">> \o Fmt2f(ttfb_duration) \o <<"s">>,
                     <<"   Response Read Time: ">> \o Fmt2f(response_read_time) \o <<"s">>,
                     <<"   Total Time: ">> \o Fmt2f(total_time) \o <<"s">>,
                     <<"   Response Length: ">> \o IntStr(Len(response_text))
                         \o <<" characters">> >>
                  \o Assessment(ttfb_duration, response_read_time)]

\* analyze_request_phases after its two header lines: except Exception turns
\* the exception into a dict with success False
analyze_request_phases(sess, outcome) ==
    LET r == AnalyzeTry(sess, outcome)
    IN  IF r.kind = "raise"
        THEN [value |-> [error |-> Str(r.ex), total |-> r.total, success |-> FALSE],
              printed |-> << <<"Error after ">> \o Fmt2f(r.total) \o <<"s: ">>
                                 \o Str(r.ex) >>]
        ELSE [value |-> r.value, printed |-> r.printed]

\* data.get("success")
IsSuccess(data) == Get(data, "success", FALSE)

RECURSIVE SumTtfb(_, _)
\* sum(r.get("ttfb", 0) for r in results.values() if r.get("success"))
SumTtfb(res, keys) ==
    IF keys = {} THEN 0
    ELSE LET key == CHOOSE x \in keys : TRUE
         IN  (IF IsSuccess(res[key]) THEN Get(res[key], "ttfb", 0) ELSE 0)
                 + SumTtfb(res, keys \ {key})

\* the summary lines of compare_query_types, in the order of insertion
ComparisonLines(res) ==
    [k \in 1..Len(queries) |->
        LET query_type == queries[k].query_type
            data == res[query_type]
        IN  IF IsSuccess(data)
            THEN <<query_type, ": ">> \o Fmt1f(data["total"]) \o <<"s (TTFB: ">>
                     \o Fmt1f(data["ttfb"]) \o <<"s)">>
            ELSE <<query_type, ": ", "FAILED">>]

\* compare_query_types after its loop: the comparison, then the average of
\* the successes' ttfb (a division by their number) and the analysis
Summary(res) ==
    LET successes == {key \in DOMAIN res : IsSuccess(res[key])}
        total_ttfb == SumTtfb(res, DOMAIN res)
        n == Cardinality(successes)
        head == << <<"Performance Comparison">>, <<"==============================">> >>
                    \o ComparisonLines(res)
    IN  IF n = 0
        THEN [kind |-> "raise", value |-> NoValue,
              ex |-> Exc("ZeroDivisionError", <<"division by zero">>),
              printed |-> head]
        ELSE [kind |-> "return", value |-> res, ex |-> NoException,
              printed |-> head \o << <<"Analysis:">> >> \o
                  (IF total_ttfb > 60 * n
                   THEN << <<"   Azure OpenAI processing is the main bottleneck">>,
                           <<"   Consider:">>,
                           <<"     - Using a faster Azure OpenAI model">>,
                           <<"     - Optimizing your prompts">>,
                           <<"     - Checking Azure region performance">> >>
                   ELSE IF total_ttfb > 30 * n
                   THEN << <<"   Azure OpenAI processing is moderately slow">>,
                           <<"   This might be normal for complex portfolio analysis">> >>
                   ELSE << <<"   Azure OpenAI processing time is reasonable">> >>)]

evaluatorVars == <<files, createVars, test_dataset_file, test_data, enriched_data,
                   i, clock, health_calls, calls>>

\* main(): the title line, then async with PerformanceAnalyzer(): __aenter__
AnalyzerEnter ==
    /\ pc = "idle"
    /\ printed' = << <<"Portfolio Manager Performance Analysis - ">> \o IntStr(clock) >>
    /\ session' = aenter(session)
    /\ acquired' = acquired + 1
    /\ raised' = NoException
    /\ returned' = NoValue
    /\ pc' = "pa_start"
    /\ UNCHANGED <<evaluatorVars, inflight, requests, pauses, analyzerVars>>

\* compare_query_types up to its loop: the heading and results = {}
CompareStart ==
    /\ pc = "pa_start"
    /\ printed' = printed \o << <<"Performance Analysis by Query Type">>,
                                <<"==================================================">> >>
    /\ results' = <<>>
    /\ pc' = "pa_loop"
    /\ UNCHANGED <<evaluatorVars, session, acquired, inflight, requests, pauses,
                   raised, returned, analyses>>

\* the next pair of queries: analyze_request_phases prints its heading and
\* sends the POST
AnalyzeSend ==
    /\ pc = "pa_loop"
    /\ Len(analyses) < Len(queries)
    /\ LET query == queries[Len(analyses) + 1].query
       IN  /\ printed' = printed \o << <<"Analyzing: ">> \o query,
                                       <<"------------------------------------------------------------">> >>
           /\ IF session = "open"
              THEN /\ requests' = Append(requests, AnalyzeRequest(session, query))
                   /\ inflight' = inflight \cup {Len(requests) + 1}
              ELSE UNCHANGED <<requests, inflight>>
    /\ pc' = "pa_wait"
    /\ UNCHANGED <<evaluatorVars, session, acquired, pauses, raised, returned,
                   analyzerVars>>

\* analyze_request_phases completes and its result is stored under the
\* query type
AnalyzeReturn(outcome) ==
    /\ pc = "pa_wait"
    /\ inflight' = {}
    /\ LET query_type == queries[Len(analyses) + 1].query_type
           r == analyze_request_phases(session, outcome)
       IN  /\ analyses' = Append(analyses, [outcome |-> outcome, result |-> r.value])
           /\ results' = (query_type :> r.value) @@ results
           /\ printed' = printed \o r.printed
    /\ pc' = "pa_sleep"
    /\ UNCHANGED <<evaluatorVars, session, acquired, requests, pauses, raised, returned>>

\* await asyncio.sleep(1), after every query
CompareSleep ==
    /\ pc = "pa_sleep"
    /\ pauses' = pauses \cup {Len(analyses)}
    /\ pc' = "pa_loop"
    /\ UNCHANGED <<evaluatorVars, session, acquired, inflight, requests, printed,
                   raised, returned, analyzerVars>>

\* the loop is over: the comparison and the analysis are printed and results
\* is returned, or the average raises
CompareSummary ==
    /\ pc = "pa_loop"
    /\ Len(analyses) = Len(queries)
    /\ LET r == Summary(results)
       IN  /\ printed' = printed \o r.printed
           /\ raised' = r.ex
           /\ returned' = r.value
           /\ pc' = IF r.kind = "raise" THEN "pa_raising" ELSE "pa_return"
    /\ UNCHANGED <<evaluatorVars, session, acquired, inflight, requests, pauses,
                   analyzerVars>>

\* the async with block of main() is left: __aexit__
AnalyzerExit ==
    /\ pc \in {"pa_raising", "pa_return"}
    /\ session' = aexit(session)
    /\ pc' = IF pc = "pa_raising" THEN "pa_failed" ELSE "pa_done"
    /\ UNCHANGED <<evaluatorVars, acquired, inflight, requests, pauses, printed,
                   raised, returned, analyzerVars>>

AnalyzerNext ==
    \/ AnalyzerEnter
    \/ CompareStart
    \/ AnalyzeSend
    \/ \E outcome \in AnalyzerOutcomes : AnalyzeReturn(outcome)
    \/ CompareSleep
    \/ CompareSummary
    \/ AnalyzerExit

AnalyzerSpec == Init /\ [][AnalyzerNext]_vars

TypeOK ==
    /\ pc \in {"idle", "create_write", "enter", "health", "health_wait", "loop",
               "query_wait", "sleep", "raising", "save", "save_write", "done", "failed"}
    /\ session \in {"none", "open", "closed"}
    /\ DOMAIN files \subseteq Paths
    /\ i \in 0..(MaxScenarios + 1)

(***************************************************************************)
(* Properties.                                                             *)
(***************************************************************************)
\* the for loop of collect_ai_responses has run to its end
LoopDone ==
    \/ pc \in {"save", "save_write", "done"}
    \/ pc = "failed" /\ raised.type = "OSError"

\* the call of scenario k failed / succeeded
Failed(k) == calls[k].result.kind = "raise"

Succeeded(k) == calls[k].result.kind = "return"

\* record e has every key of scenario sc, with the same value
DerivedFrom(e, sc) ==
    /\ DOMAIN sc \subseteq DOMAIN e
    /\ \A key \in DOMAIN sc : e[key] = sc[key]

\* the token sequence t occurs in s
ContainsSeq(s, t) ==
    \E a \in 0..(Len(s) - Len(t)) : SubSeq(s, a + 1, a + Len(t)) = t

\* the names of a list of tool definitions
ToolNames(defs) == {defs[k]["name"] : k \in DOMAIN defs}

\* C1: for a healthy service, collect_ai_responses produces exactly one
\* enriched record per input scenario, the k-th record derived from the
\* k-th scenario, whatever calls fail; the file it returns holds these records.
C1_OneRecordPerScenarioInOrder ==
    /\ pc = "loop" => Len(enriched_data) = i - 1
    /\ LoopDone =>
          /\ Len(enriched_data) = Len(test_data)
          /\ \A k \in DOMAIN test_data : DerivedFrom(enriched_data[k], test_data[k])
    /\ pc = "done" =>
          LET lines == files[returned]
          IN  /\ Len(lines) = Len(test_data)
              /\ \A k \in DOMAIN test_data : DerivedFrom(Loads(lines[k]), test_data[k])

C1_Witness ==
    /\ pc = "done"
    /\ Len(test_data) = 3
    /\ test_data[1]["scenario_id"] # test_data[2]["scenario_id"]
    /\ Failed(1) /\ Succeeded(2) /\ Failed(3)

\* C2: when the call of scenario k fails and every other call succeeds,
\* record k alone carries an error and an "Error: ..." response; every other
\* record carries the response of its own call and no error.
C2_FailureIsolation ==
    LoopDone =>
        \A k \in DOMAIN calls :
            (Failed(k) /\ \A j \in DOMAIN calls \ {k} : Succeeded(j)) =>
                /\ "error" \in DOMAIN enriched_data[k]
                /\ "response" \in DOMAIN enriched_data[k]
                /\ enriched_data[k]["response"] # <<>>
                /\ Head(enriched_data[k]["response"]) = "Error: "
                /\ \A j \in DOMAIN calls \ {k} :
                      /\ "error" \notin DOMAIN enriched_data[j]
                      /\ enriched_data[j]["response"] =
                            (IF "response" \in DOMAIN calls[j].result.value
                             THEN calls[j].result.value["response"]
                             ELSE <<"No response">>)

C2_Witness ==
    /\ pc = "done"
    /\ Len(calls) = 3
    /\ Succeeded(1) /\ Failed(2) /\ Succeeded(3)
    /\ "error" \in DOMAIN enriched_data[2]

\* C3: when health_check returns false, collect_ai_responses raises before
\* any scenario is attempted: no query is sent, no enriched record is
\* produced and no enriched file is written.
C3_FailFast ==
    /\ []((/\ health_calls # <<>>
           /\ health_calls[1].result.kind = "return"
           /\ ~health_calls[1].result.value) =>
              /\ pc \in {"raising", "failed"}
              /\ raised # NoException
              /\ \A k \in DOMAIN requests : requests[k].method # "POST"
              /\ calls = <<>>
              /\ enriched_data = <<>>)
    /\ [][(pc \in {"enter", "health", "health_wait", "raising", "failed"}) => (files' = files)]_vars

C3_Witness ==
    /\ pc = "failed"
    /\ Len(test_data) > 0
    /\ health_calls # <<>>
    /\ health_calls[1].outcome.status = 503
    /\ raised.type = "Exception"

\* C4: health_check returns true exactly when the GET completes with
\* status 200, returns false for any other status, a transport error or a
\* timeout, and never raises.
C4_HealthCheckTotal ==
    \A k \in DOMAIN health_calls :
        /\ health_calls[k].result.kind = "return"
        /\ health_calls[k].result.value =
              (health_calls[k].outcome.transport = "ok"
               /\ health_calls[k].outcome.status = 200)

C4_Witness ==
    /\ health_calls # <<>>
    /\ health_calls[1].outcome.transport = "TimeoutError"
    /\ health_calls[1].result.kind = "return"
    /\ health_calls[1].result.value = FALSE

\* C5: send_chat_query returns the parsed JSON body unchanged for a 200
\* answer; for a non-200 answer it raises, never returns, and the error
\* carries the status code and the body text; for a transport-level failure
\* (the body that cannot be read or parsed included) it raises the cause.
C5_SendChatQueryContract ==
    \A k \in DOMAIN calls :
        LET o == calls[k].outcome
            r == calls[k].result
        IN  /\ (o.transport = "ok" /\ o.status = 200 /\ o.json_ok) =>
                  (r.kind = "return" /\ r.value = o.json)
            /\ (o.transport = "ok" /\ o.status # 200) => r.kind = "raise"
            /\ (o.transport = "ok" /\ o.status # 200 /\ o.text_ok) =>
                  /\ ContainsSeq(Str(r.ex), IntStr(o.status))
                  /\ ContainsSeq(Str(r.ex), o.text)
            /\ (o.transport = "ok" /\ o.status # 200 /\ ~o.text_ok) =>
                  r.ex.type = "ClientPayloadError"
            /\ (o.transport = "ok" /\ o.status = 200 /\ ~o.json_ok) =>
                  /\ r.kind = "raise"
                  /\ r.ex.type = IF o.json_ctype THEN "JSONDecodeError"
                                                 ELSE "ContentTypeError"
            /\ o.transport # "ok" =>
                  (r.kind = "raise" /\ r.ex.type = o.transport)

C5_Witness ==
    /\ calls # <<>>
    /\ calls[1].outcome.status = 500
    /\ calls[1].outcome.text_ok
    /\ calls[1].result.kind = "raise"
    /\ Str(calls[1].result.ex) =
          <<"API Error ", "5", "0", "0", ": ", "Internal Server Error">>

\* C6: each scenario causes exactly one query, failed or not: the requests
\* of a run are one health GET followed by one POST per scenario, in order.
C6_NoRetries ==
    /\ requests # <<>> => requests[1].method = "GET"
    /\ \A k \in DOMAIN requests : k > 1 => requests[k].method = "POST"
    /\ pc = "loop" => Len(requests) = i
    /\ pc \in {"query_wait", "sleep"} => Len(requests) = i + 1
    /\ LoopDone =>
          /\ Len(requests) = 1 + Len(test_data)
          /\ \A k \in DOMAIN test_data :
                requests[k + 1].json["query"] = test_data[k]["query"]

C6_Witness ==
    /\ pc = "done"
    /\ Len(test_data) = 3
    /\ Failed(1) /\ Failed(2) /\ Succeeded(3)
    /\ Len(requests) = 4

\* the collection run is over, past the loading of the dataset
RunEnded ==
    \/ pc \in {"save", "save_write", "done"}
    \/ pc = "failed" /\ raised.type # "FileNotFoundError"

\* C7: a collection run acquires the session exactly once, every request is
\* sent while the session is open, and the session is released when the
\* run ends: normally, with failed scenarios, or with the health failure.
C7_SessionScoped ==
    /\ [](/\ acquired <= 1
          /\ requests # <<>> => acquired = 1
          /\ inflight # {} => session = "open"
          /\ \A k \in DOMAIN requests : requests[k].session = "open"
          /\ pc \in {"health", "health_wait", "loop", "query_wait", "sleep", "raising"}
                => (acquired = 1 /\ session = "open")
          /\ RunEnded => (acquired = 1 /\ session = "closed"))
    /\ [][session = "closed" => (requests' = requests /\ session' = "closed")]_vars

C7_Witness ==
    /\ pc = "failed"
    /\ health_calls # <<>>
    /\ raised.type = "Exception"
    /\ acquired = 1
    /\ session = "closed"

\* C8: for every scenario whose call succeeds with payload P the record has
\* response = P["response"] ("No response" when P has no such field),
\* tool_calls empty, api_response_full = P and no error; so three scenarios
\* answered {"response": "All good"} give three such records.
C8_SuccessRecord ==
    \A k \in DOMAIN enriched_data :
        Succeeded(k) =>
            LET P == calls[k].result.value
                e == enriched_data[k]
            IN  /\ {"response", "tool_calls", "api_response_full"} \subseteq DOMAIN e
                /\ e["response"] = (IF "response" \in DOMAIN P
                                    THEN P["response"]
                                    ELSE <<"No response">>)
                /\ e["tool_calls"] = <<>>
                /\ e["api_response_full"] = P
                /\ "error" \notin DOMAIN e

C8_Witness ==
    /\ pc = "done"
    /\ Len(enriched_data) = 3
    /\ \A k \in 1..3 :
          /\ Succeeded(k)
          /\ calls[k].result.value = [response |-> <<"All good">>]
          /\ enriched_data[k]["response"] = <<"All good">>
          /\ enriched_data[k]["tool_calls"] = <<>>
          /\ "error" \notin DOMAIN enriched_data[k]

\* C9: every enriched record has a response; it has either no error, or an
\* error with a response embedding that error description and empty
\* tool_calls; and it has an error exactly when its scenario's call failed.
C9_ResponseOrError ==
    \A k \in DOMAIN enriched_data :
        LET e == enriched_data[k]
        IN  /\ "response" \in DOMAIN e
            /\ "error" \in DOMAIN e <=> Failed(k)
            /\ "error" \in DOMAIN e =>
                  /\ e["error"] = Str(calls[k].result.ex)
                  /\ e["response"] = <<"Error: ">> \o e["error"]
                  /\ ContainsSeq(e["response"], e["error"])
                  /\ e["tool_calls"] = <<>>

C9_Witness ==
    /\ pc = "done"
    /\ Len(enriched_data) = 2
    /\ calls[1].result.kind = "raise"
    /\ calls[1].result.ex.type = "JSONDecodeError"
    /\ "error" \in DOMAIN enriched_data[1]
    /\ "error" \notin DOMAIN enriched_data[2]

\* C10: in the dataset written by create_test_dataset, every record's
\* expected_tool is the name of one of the tool definitions of that record.
C10_ExpectedToolDeclared ==
    output_file \in DOMAIN files =>
        \A k \in DOMAIN files[output_file] :
            LET row == Loads(files[output_file][k])
            IN  row["expected_tool"] \in ToolNames(row["tool_definitions"])

C10_Witness ==
    /\ pc = "idle"
    /\ returned = DefaultPath
    /\ Len(files[DefaultPath]) = Len(test_scenarios)

\* the file create_test_dataset wrote holds every scenario of the catalog
BuildComplete ==
    /\ pc = "idle"
    /\ returned # NoValue
    /\ returned = output_file

\* the number a two-digit scenario id ends with
IdNumber(id) ==
    LET DigitValue(c) == CHOOSE d \in 0..9 : DigitChars[d + 1] = c
    IN  10 * DigitValue(id[2]) + DigitValue(id[3])

\* C11: in the dataset written by create_test_dataset the scenario ids are
\* pairwise distinct and strictly increasing in file order: line k (from 1)
\* has scenario_id "test_" followed by k zero-padded to two digits.
C11_ScenarioIdsSequential ==
    output_file \in DOMAIN files =>
        LET lines == files[output_file]
            id(k) == Loads(lines[k])["scenario_id"]
        IN  \A k \in DOMAIN lines :
                /\ id(k) = <<"test_", DigitChars[(k \div 10) + 1], DigitChars[(k % 10) + 1]>>
                /\ \A j \in 1..(k - 1) :
                      /\ id(j) # id(k)
                      /\ IdNumber(id(j)) < IdNumber(id(k))

C11_Witness ==
    /\ BuildComplete
    /\ Len(files[output_file]) = 11
    /\ Loads(files[output_file][9])["scenario_id"] = <<"test_", "0", "9">>
    /\ Loads(files[output_file][10])["scenario_id"] = <<"test_", "1", "0">>

\* C12: parsing the file create_test_dataset wrote gives back the scenario
\* catalog: as many rows, in the same order, each with every field of its
\* scenario under the same name and with the same value, the note included.
C12_RoundTrip ==
    BuildComplete =>
        LET parsed == [k \in DOMAIN files[output_file] |-> Loads(files[output_file][k])]
        IN  /\ Len(parsed) = Len(test_scenarios)
            /\ \A k \in DOMAIN parsed :
                  \A field \in DOMAIN test_scenarios[k] :
                      /\ field \in DOMAIN parsed[k]
                      /\ parsed[k][field] = test_scenarios[k][field]

\* C13: the built dataset is a fixed catalog: the Apple sentiment query
\* maps to MarketIntelligenceTool with {"symbol": "AAPL"}, the last-week
\* comparison query to PortfolioComparisonTool with {"currentDate": "today",
\* "comparisonDate": "2025-11-11"}, and every build gives the same records.
C13_FixedCatalog ==
    /\ \A a, b \in DOMAIN builds : builds[a] = builds[b]
    /\ BuildComplete =>
          LET parsed == [k \in DOMAIN files[output_file] |-> Loads(files[output_file][k])]
          IN  /\ \E k \in DOMAIN parsed :
                    /\ parsed[k]["query"] = "What's the market sentiment for Apple stock?"
                    /\ parsed[k]["expected_tool"] = "MarketIntelligenceTool"
                    /\ parsed[k]["expected_params"] = [symbol |-> "AAPL"]
              /\ \E k \in DOMAIN parsed :
                    /\ parsed[k]["query"] = "How does my portfolio today compare to last week?"
                    /\ parsed[k]["expected_tool"] = "PortfolioComparisonTool"
                    /\ parsed[k]["expected_params"] =
                          [currentDate |-> "today", comparisonDate |-> "2025-11-11"]
              /\ \A k \in DOMAIN parsed :
                    parsed[k]["query"] \in
                        {"What's the market sentiment for Apple stock?",
                         "How does my portfolio today compare to last week?"}
                    => k \in {4, 7}

C13_Witness ==
    /\ BuildComplete
    /\ Len(builds) = 2
    /\ builds[1] = files[output_file]
    /\ Len(builds[2]) = Len(test_scenarios)

\* what went wrong with a query, as the service and the network determine it
FaultKind(o) ==
    IF o.transport # "ok" THEN "transport"
    ELSE IF o.status # 200 THEN (IF o.text_ok THEN "api" ELSE "transport")
    ELSE IF ~o.json_ctype \/ ~o.json_ok THEN "malformed"
    ELSE "none"

\* the kind of a raised fault: the class an except clause or isinstance
\* sorts it under, below Exception
ErrorKind(ex) ==
    CASE ex.type \in {"ClientConnectorError", "ClientPayloadError", "ContentTypeError"}
            -> "ClientError"
      [] ex.type = "JSONDecodeError" -> "ValueError"
      [] OTHER -> ex.type

\* C14: a 200 answer whose body cannot be parsed as JSON is raised as a
\* fault of a kind different from the kind of every transport failure and
\* of every non-200 API error met by the same run.
C14_MalformedDistinct ==
    \A k \in DOMAIN calls :
        FaultKind(calls[k].outcome) = "malformed" =>
            /\ calls[k].result.kind = "raise"
            /\ \A j \in DOMAIN calls :
                  FaultKind(calls[j].outcome) \in {"transport", "api"} =>
                      ErrorKind(calls[k].result.ex) # ErrorKind(calls[j].result.ex)

\* C15: a file that a later step opens holds all records of the write that
\* produced it: a collection that opens the dataset file written by
\* create_test_dataset loads every scenario of the catalog, and the enriched
\* file left at its path when a collection ends, normally or by a fault of
\* the write, holds every enriched record.
C15_NoPartialFileRead ==
    /\ [][(pc = "idle" /\ pc' = "enter" /\ test_dataset_file' = output_file) => (Len(test_data') = Len(test_scenarios))]_vars
    /\ []((pc = "done" \/ (pc = "failed" /\ raised.type = "OSError")) =>
              Len(files[EnrichedFile(test_dataset_file)]) = Len(enriched_data))

\* C16: the query of scenario i+1 is sent only after a pause that followed
\* the handling of scenario i, whether scenario i succeeded or failed.
C16_PauseAfterEachScenario ==
    (pc = "query_wait" /\ i >= 2) => (i - 1) \in pauses

\* C17: at most one request is in flight at any moment of a collection run:
\* a request is sent only when none is in flight, the health check has
\* completed before the first query is sent, and the query of scenario i is
\* sent only when the calls of scenarios 1..i-1 have completed and their
\* enriched records are appended.
C17_OneCallInFlight ==
    /\ [](/\ Cardinality(inflight) <= 1
          /\ (pc = "query_wait" \/ calls # <<>>) => Len(health_calls) = 1
          /\ pc = "query_wait" =>
                /\ Len(calls) = i - 1
                /\ Len(enriched_data) = i - 1
                /\ inflight \subseteq {Len(requests)})
    /\ [][(requests' # requests) => (inflight = {})]_vars

C17_Witness ==
    /\ pc = "query_wait"
    /\ i = 3
    /\ inflight = {4}
    /\ Len(health_calls) = 1
    /\ Len(enriched_data) = 2
    /\ Failed(1)

\* the keys enrichment sets
EnrichmentKeys == {"response", "tool_calls", "api_response_full", "timestamp", "error"}

\* C18: enrichment leaves the loaded scenarios as they were loaded, with
\* none of the enrichment keys added, and every enriched record, of a
\* success or of a failure, has every field of its scenario with the
\* scenario's value.
C18_InputUntouched ==
    /\ [][(pc # "idle") => (test_data' = test_data)]_vars
    /\ [](/\ \A k \in DOMAIN test_data : DOMAIN test_data[k] \cap EnrichmentKeys = {}
          /\ \A k \in DOMAIN enriched_data :
                \A field \in DOMAIN test_data[k] :
                    /\ field \in DOMAIN enriched_data[k]
                    /\ enriched_data[k][field] = test_data[k][field])

C18_Witness ==
    /\ pc = "done"
    /\ Len(test_data) = 2
    /\ Succeeded(1) /\ Failed(2)
    /\ "api_response_full" \in DOMAIN enriched_data[1]
    /\ "error" \in DOMAIN enriched_data[2]
    /\ \A k \in 1..2 : test_data[k] = Loads(files[test_dataset_file][k])

\* C19: a collection run leaves the enriched file of an earlier run on the
\* same dataset file as it is: when the run comes to save its records, an
\* enriched file already at the path of its dataset keeps its content.
C19_ArtifactWrittenOnce ==
    [][(pc = "save" /\ EnrichedFile(test_dataset_file) \in DOMAIN files) => (EnrichedFile(test_dataset_file) \in DOMAIN files' /\ files'[EnrichedFile(test_dataset_file)] = files[EnrichedFile(test_dataset_file)])]_vars

\* C20: every fault leaves a message: a health check or a query whose request
\* fails (in transport, with a non-200 answer, with an unparseable body)
\* prints a message or raises to its caller, and every failed scenario has
\* its error line in the collector's output.
C20_EveryFaultTraced ==
    /\ \A k \in DOMAIN health_calls :
          health_calls[k].outcome.transport # "ok" =>
              \/ health_calls[k].result.kind = "raise"
              \/ health_calls[k].result.printed # <<>>
    /\ \A k \in DOMAIN calls :
          FaultKind(calls[k].outcome) # "none" =>
              \/ calls[k].result.kind = "raise"
              \/ calls[k].result.printed # <<>>
    /\ \A k \in DOMAIN enriched_data :
          Failed(k) =>
              \E m \in DOMAIN printed :
                  printed[m] = <<"Error processing scenario ">> \o IntStr(k)
                                   \o <<": ">> \o Str(calls[k].result.ex)

\* C21: a collection run writes its enriched records to a path other than
\* the path of its input, and the input dataset file keeps the content it
\* was loaded with until the run ends.
C21_InputNotOverwritten ==
    /\ [][(pc \notin {"idle", "create_write"} /\ test_dataset_file \in DOMAIN files) => (test_dataset_file \in DOMAIN files' /\ files'[test_dataset_file] = files[test_dataset_file])]_vars
    /\ []((pc \in {"save", "save_write", "done"}) =>
              EnrichedFile(test_dataset_file) # test_dataset_file)

\* compare_query_types is over, with a value or with an exception
CompareEnded == pc \in {"pa_return", "pa_raising", "pa_done", "pa_failed"}

\* C22: every analysis of a request that met a fault has success False; the
\* three queries are sent in order, one at a time; and compare_query_types
\* ends by returning its results, one entry per query type, whatever
\* requests failed.
C22_FailuresContained ==
    /\ \A k \in DOMAIN analyses :
          (analyses[k].outcome.transport # "ok" \/ analyses[k].outcome.status # 200
             \/ ~analyses[k].outcome.json_ctype \/ ~analyses[k].outcome.json_ok)
              => analyses[k].result["success"] = FALSE
    /\ Cardinality(inflight) <= 1
    /\ Len(requests) <= Len(queries)
    /\ \A k \in DOMAIN requests : requests[k].json["query"] = queries[k].query
    /\ pc = "pa_wait" => Len(analyses) = Len(requests) - 1
    /\ CompareEnded =>
          /\ raised = NoException
          /\ DOMAIN results = {queries[k].query_type : k \in DOMAIN queries}
          /\ returned = results

=============================================================================
